---- MODULE Spec2Model ----
(***************************************************************************)
(* ttk::ContinuousScatterPlot (core/base/continuousScatterPlot):           *)
(* the object's configuration fields, execute()'s precondition checks and  *)
(* its cell loop (cell loader, gradient solver, Jacobian and classifier,   *)
(* density and geometry emitter), run by threadNumber_ threads.            *)
(*                                                                         *)
(* Numbers are exact: scalars and coordinates are integers, quotients are  *)
(* kept as numerator/denominator and lengths as the square root of a       *)
(* rational, so that "== 0." in the code is an exact test here too.        *)
(***************************************************************************)
EXTENDS Integers, Sequences, FiniteSets, TLC

\* A pointer: null, or to x.
Null == [null |-> TRUE]
Ptr(x) == [null |-> FALSE, at |-> x]

\* Bounds of the model.
MaxCells == 2
MaxThreads == 2

Abs(x) == IF x < 0 THEN -x ELSE x
Min2(x, y) == IF x < y THEN x ELSE y
Max2(x, y) == IF x < y THEN y ELSE x

(***************************************************************************)
(* Geometry.h, by the meaning of its functions: vectors are 3-tuples.       *)
(***************************************************************************)
Zero3 == <<0, 0, 0>>
Sub3(u, v) == <<u[1] - v[1], u[2] - v[2], u[3] - v[3]>>
Add3(u, v) == <<u[1] + v[1], u[2] + v[2], u[3] + v[3]>>
Scale3(k, u) == <<k * u[1], k * u[2], k * u[3]>>

crossProduct(u, v) ==
  <<u[2] * v[3] - u[3] * v[2], u[3] * v[1] - u[1] * v[3], u[1] * v[2] - u[2] * v[1]>>

dotProduct(u, v) == u[1] * v[1] + u[2] * v[2] + u[3] * v[3]

\* A vector of rationals with a common denominator: num / den.
RVec(num, den) == [num |-> num, den |-> den]

\* A length: sqrt(sq) / den, den > 0.
Norm(sq, den) == [fin |-> TRUE, sq |-> sq, den |-> den]
\* The result of an operation on a NaN or an infinity.
NotFinite == [fin |-> FALSE, sq |-> 0, den |-> 1]
IsZeroLen(l) == l.fin /\ l.sq = 0

\* Geometry::magnitude of a rational vector.
magnitude(v) == Norm(dotProduct(v.num, v.num), Abs(v.den))

\* Geometry::distance between two rational vectors.
distance(p, q) ==
  LET diff == Sub3(Scale3(q.den, p.num), Scale3(p.den, q.num))
  IN  Norm(dotProduct(diff, diff), Abs(p.den * q.den))

\* Orientation of the 2D points a, b, c (z of the cross product of ab and ac).
Orient(a, b, c) == (b[1] - a[1]) * (c[2] - a[2]) - (b[2] - a[2]) * (c[1] - a[1])

\* Geometry::isPointInTriangle(p0, p1, p2, p): p lies in the closed triangle
\* p0 p1 p2 (its barycentric coordinates are all in [0, 1]).
isPointInTriangle(p0, p1, p2, p) ==
  LET o1 == Orient(p0, p1, p)
      o2 == Orient(p1, p2, p)
      o3 == Orient(p2, p0, p)
  IN  ~ ((o1 < 0 \/ o2 < 0 \/ o3 < 0) /\ (o1 > 0 \/ o2 > 0 \/ o3 > 0))

\* Geometry::computeTriangleArea: the area is half the magnitude of the cross
\* product of two edges; kept as twice the area, an integer.
computeTriangleArea(p0, p1, p2) == Abs(Orient(p0, p1, p2))

\* x/d >= m and x/d <= m for a rational x/d, d # 0.
RatGE(x, d, m) == IF d > 0 THEN x >= m * d ELSE x <= m * d
RatLE(x, d, m) == IF d > 0 THEN x <= m * d ELSE x >= m * d

\* Geometry::computeSegmentIntersection(A, B, C, D, x, y): the lines AB and CD
\* are not parallel and their common point (x, y) lies on both segments.
\* The point is returned as X/d, Y/d.
SegmentIntersection(A, B, C, D) ==
  LET d == (A[1] - B[1]) * (C[2] - D[2]) - (A[2] - B[2]) * (C[1] - D[1])
      X == (C[1] - D[1]) * (A[1] * B[2] - A[2] * B[1])
             - (A[1] - B[1]) * (C[1] * D[2] - C[2] * D[1])
      Y == (C[2] - D[2]) * (A[1] * B[2] - A[2] * B[1])
             - (A[2] - B[2]) * (C[1] * D[2] - C[2] * D[1])
      within(lo, hi, x) == RatGE(x, d, lo) /\ RatLE(x, d, hi)
  IN  IF d = 0
      THEN [found |-> FALSE, p |-> RVec(Zero3, 1)]
      ELSE IF /\ within(Min2(A[1], B[1]), Max2(A[1], B[1]), X)
              /\ within(Min2(C[1], D[1]), Max2(C[1], D[1]), X)
              /\ within(Min2(A[2], B[2]), Max2(A[2], B[2]), Y)
              /\ within(Min2(C[2], D[2]), Max2(C[2], D[2]), Y)
           THEN [found |-> TRUE, p |-> RVec(<<X, Y, 0>>, d)]
           ELSE [found |-> FALSE, p |-> RVec(Zero3, 1)]

(***************************************************************************)
(* The caller's data: a triangulation and two scalar arrays.               *)
(* A cell of the catalogue lists its vertices' scalars and positions; the  *)
(* vertex ids of cell c are 5 * c + k.                                     *)
(***************************************************************************)
Idx(a, b, c, d) == (0 :> a) @@ (1 :> b) @@ (2 :> c) @@ (3 :> d)

CellOf(nv, s1, s2, pos) == [nv |-> nv, s1 |-> s1, s2 |-> s2, pos |-> pos]

VertexIds(ks) == UNION {{5 * c + k : k \in 0..(ks[c + 1].nv - 1)} : c \in 0..(Len(ks) - 1)}

\* Triangulation: getNumberOfCells, getCellVertexNumber, getCellVertex, getVertexPoint.
TriangulationOf(ks, n) ==
  [numberOfCells |-> n,
   cellVertexNumber |-> [c \in 0..(Len(ks) - 1) |-> ks[c + 1].nv],
   cellVertex |-> [c \in 0..(Len(ks) - 1) |-> [k \in 0..(ks[c + 1].nv - 1) |-> 5 * c + k]],
   vertexPoint |-> [v \in VertexIds(ks) |-> ks[(v \div 5) + 1].pos[(v % 5) + 1]]]

Scalars1Of(ks) == [v \in VertexIds(ks) |-> ks[(v \div 5) + 1].s1[(v % 5) + 1]]
Scalars2Of(ks) == [v \in VertexIds(ks) |-> ks[(v \div 5) + 1].s2[(v % 5) + 1]]

(***************************************************************************)
(* Cell loader (lines 144-184).                                            *)
(***************************************************************************)
\* The vertex ids read by getCellVertex(cell, k, vertex[k]), k = 0..3; a cell
\* with fewer than 4 vertices leaves vertex[k] uninitialised: any id u.
CellVertices(tri, cell, u) ==
  [k \in 0..3 |-> IF k < tri.cellVertexNumber[cell] THEN tri.cellVertex[cell][k] ELSE u]

\* data[k] = (scalars1[vertex[k]], scalars2[vertex[k]], 0)
CellData(s1, s2, vertex) == [k \in 0..3 |-> <<s1[vertex[k]], s2[vertex[k]], 0>>]

CellPositions(tri, vertex) == [k \in 0..3 |-> tri.vertexPoint[vertex[k]]]

\* (Mutant: only the first scalar is compared.)
DummyVertexFirstOnly(d, wd, dv) == wd /\ d[1] = dv

\* The test of one vertex against the dummy value.
DummyVertex(d, wd, dv) == wd /\ (d[1] = dv \/ d[2] = dv)

\* isDummy after the loop over the 4 vertices (it breaks at the first one).
IsDummyCell(data, wd, dv) == \E k \in 0..3 : DummyVertex(data[k], wd, dv)

(***************************************************************************)
(* Gradient solver (lines 187-235).                                        *)
(***************************************************************************)
\* (Mutant: s13 and s12 exchanged.)
GradientNumeratorSwapped(s12, s13, s14, a, b, c, ch) ==
  Add3(Add3(Scale3(s14[ch], a), Scale3(s12[ch], b)), Scale3(s13[ch], c))

\* (s14[ch] * a + s13[ch] * b + s12[ch] * c), the gradient before "* invDet".
GradientNumerator(s12, s13, s14, a, b, c, ch) ==
  Add3(Add3(Scale3(s14[ch], a), Scale3(s13[ch], b)), Scale3(s12[ch], c))

\* (Mutant: no branch for det == 0.)
GradientNoZeroBranch(position, data) ==
  LET v12 == Sub3(position[1], position[0])
      v13 == Sub3(position[2], position[0])
      v14 == Sub3(position[3], position[0])
      s12 == Sub3(data[1], data[0])
      s13 == Sub3(data[2], data[0])
      s14 == Sub3(data[3], data[0])
      a == crossProduct(v13, v12)
      b == crossProduct(v12, v14)
      c == crossProduct(v14, v13)
      det == dotProduct(v14, a)
  IN  [det |-> det,
       g0 |-> RVec(GradientNumerator(s12, s13, s14, a, b, c, 1), det),
       g1 |-> RVec(GradientNumerator(s12, s13, s14, a, b, c, 2), det)]

Gradient(position, data) ==
  LET v12 == Sub3(position[1], position[0])
      v13 == Sub3(position[2], position[0])
      v14 == Sub3(position[3], position[0])
      s12 == Sub3(data[1], data[0])
      s13 == Sub3(data[2], data[0])
      s14 == Sub3(data[3], data[0])
      a == crossProduct(v13, v12)
      b == crossProduct(v12, v14)
      c == crossProduct(v14, v13)
      det == dotProduct(v14, a)
  IN  IF det = 0
      THEN [det |-> det, g0 |-> RVec(Zero3, 1), g1 |-> RVec(Zero3, 1)]
      ELSE [det |-> det,
            g0 |-> RVec(GradientNumerator(s12, s13, s14, a, b, c, 1), det),
            g1 |-> RVec(GradientNumerator(s12, s13, s14, a, b, c, 2), det)]

(***************************************************************************)
(* Jacobian and classifier (lines 243-279).                                *)
(***************************************************************************)
\* volume = |g0 x g1|
Volume(g0, g1) == magnitude(RVec(crossProduct(g0.num, g1.num), g0.den * g1.den))

\* (Mutant: the tests from vertex 0 to vertex 3.)
ClassifyLowestFirst(data) ==
  IF isPointInTriangle(data[1], data[2], data[3], data[0])
  THEN [isInTriangle |-> TRUE, index |-> Idx(1, 2, 3, 0)]
  ELSE IF isPointInTriangle(data[0], data[2], data[3], data[1])
  THEN [isInTriangle |-> TRUE, index |-> Idx(0, 2, 3, 1)]
  ELSE IF isPointInTriangle(data[0], data[1], data[3], data[2])
  THEN [isInTriangle |-> TRUE, index |-> Idx(0, 1, 3, 2)]
  ELSE IF isPointInTriangle(data[0], data[1], data[2], data[3])
  THEN [isInTriangle |-> TRUE, index |-> Idx(0, 1, 2, 3)]
  ELSE [isInTriangle |-> FALSE, index |-> Idx(0, 1, 2, 3)]

\* (Mutant: the second test leaves index as initialised.)
ClassifyIndexKept(data) ==
  IF isPointInTriangle(data[0], data[1], data[2], data[3])
  THEN [isInTriangle |-> TRUE, index |-> Idx(0, 1, 2, 3)]
  ELSE IF isPointInTriangle(data[0], data[1], data[3], data[2])
  THEN [isInTriangle |-> TRUE, index |-> Idx(0, 1, 2, 3)]
  ELSE IF isPointInTriangle(data[0], data[2], data[3], data[1])
  THEN [isInTriangle |-> TRUE, index |-> Idx(0, 2, 3, 1)]
  ELSE IF isPointInTriangle(data[1], data[2], data[3], data[0])
  THEN [isInTriangle |-> TRUE, index |-> Idx(1, 2, 3, 0)]
  ELSE [isInTriangle |-> FALSE, index |-> Idx(0, 1, 2, 3)]

\* The four containment tests, in the order of the code; index as assigned.
Classify(data) ==
  IF isPointInTriangle(data[0], data[1], data[2], data[3])
  THEN [isInTriangle |-> TRUE, index |-> Idx(0, 1, 2, 3)]
  ELSE IF isPointInTriangle(data[0], data[1], data[3], data[2])
  THEN [isInTriangle |-> TRUE, index |-> Idx(0, 1, 3, 2)]
  ELSE IF isPointInTriangle(data[0], data[2], data[3], data[1])
  THEN [isInTriangle |-> TRUE, index |-> Idx(0, 2, 3, 1)]
  ELSE IF isPointInTriangle(data[1], data[2], data[3], data[0])
  THEN [isInTriangle |-> TRUE, index |-> Idx(1, 2, 3, 0)]
  ELSE [isInTriangle |-> FALSE, index |-> Idx(0, 1, 2, 3)]

(***************************************************************************)
(* Density and geometry emitter (lines 281-458).                           *)
(***************************************************************************)
\* std::numeric_limits<double>::max(), and massDensity / volume.
DensityMax == [kind |-> "max"]
Quotient(massDensity, volume) == [kind |-> "quot", num |-> massDensity, den |-> volume]

\* (Mutant: the sentinel only for a non-zero massDensity.)
DensityUnlessMassZero(isLimit, massDensity, volume) ==
  IF isLimit /\ ~ IsZeroLen(massDensity) THEN DensityMax ELSE Quotient(massDensity, volume)

\* (Mutant: no branch for the limit case.)
DensityAlwaysQuotient(isLimit, massDensity, volume) == Quotient(massDensity, volume)

\* if(isLimit) density = max; else density = massDensity / volume;
Density(isLimit, massDensity, volume) ==
  IF isLimit THEN DensityMax ELSE Quotient(massDensity, volume)

\* A rational weight n / d.
Rat(n, d) == [n |-> n, d |-> d]

\* invA = 1.0 / A; if(A == 0.) invA = 0.0;  then  w *= invA  (areas doubled).
Weight(w, A) == IF A = 0 THEN Rat(0, 1) ELSE Rat(w, A)

\* p1 = alpha * position[i0] + beta * position[i1] + gamma * position[i2]
Barycentre(alpha, beta, gamma, q0, q1, q2) ==
  RVec(Add3(Add3(Scale3(alpha.n * beta.d * gamma.d, q0),
                 Scale3(beta.n * alpha.d * gamma.d, q1)),
            Scale3(gamma.n * alpha.d * beta.d, q2)),
       alpha.d * beta.d * gamma.d)

\* The three triangles of the InTriangle case, as pushed.
TrianglesInTriangle(vertex, index) ==
  << <<vertex[index[3]], vertex[index[0]], vertex[index[1]]>>,
     <<vertex[index[3]], vertex[index[0]], vertex[index[2]]>>,
     <<vertex[index[3]], vertex[index[1]], vertex[index[2]]>> >>

\* The record of the InTriangle case, from the base area A and the weights.
InTriangleResult(A, alpha, beta, gamma, massDensity, vertex, index, volume, isLimit) ==
  [isInTriangle |-> TRUE, index |-> index, found |-> FALSE,
   isLimit |-> isLimit, A |-> A, recipOfZero |-> (A = 0),
   weights |-> <<alpha, beta, gamma>>,
   massDensity |-> massDensity,
   density |-> Density(isLimit, massDensity, volume),
   imaginaryPosition |-> RVec(Zero3, 1),
   pushed |-> TrianglesInTriangle(vertex, index)]

\* massDensity = |p0 - p1|, p0 = position[i3]
InTriangleMass(alpha, beta, gamma, position, index) ==
  distance(RVec(position[index[3]], 1),
           Barycentre(alpha, beta, gamma,
                      position[index[0]], position[index[1]], position[index[2]]))

InTriangleWeights(A, data, position, vertex, index, volume, isLimit) ==
  InTriangleResult(
    A,
    Weight(computeTriangleArea(data[index[1]], data[index[2]], data[index[3]]), A),
    Weight(computeTriangleArea(data[index[0]], data[index[2]], data[index[3]]), A),
    Weight(computeTriangleArea(data[index[0]], data[index[1]], data[index[3]]), A),
    InTriangleMass(
      Weight(computeTriangleArea(data[index[1]], data[index[2]], data[index[3]]), A),
      Weight(computeTriangleArea(data[index[0]], data[index[2]], data[index[3]]), A),
      Weight(computeTriangleArea(data[index[0]], data[index[1]], data[index[3]]), A),
      position, index),
    vertex, index, volume, isLimit \/ A = 0)

\* Lines 287-359: A == 0 makes the cell a limit case.
ProjectInTriangle(vertex, data, position, index, volume, isLimit) ==
  InTriangleWeights(computeTriangleArea(data[index[0]], data[index[1]], data[index[2]]),
                    data, position, vertex, index, volume, isLimit)

\* (Mutant: the second pairing keeps the permutation of the first.)
QuadPermutationStale(data) ==
  LET i1 == SegmentIntersection(data[0], data[1], data[2], data[3])
      i2 == SegmentIntersection(data[0], data[2], data[1], data[3])
      i3 == SegmentIntersection(data[0], data[3], data[1], data[2])
  IN  IF i1.found THEN [found |-> TRUE, p |-> i1.p, index |-> Idx(0, 1, 2, 3)]
      ELSE IF i2.found THEN [found |-> TRUE, p |-> i2.p, index |-> Idx(0, 1, 2, 3)]
      ELSE IF i3.found THEN [found |-> TRUE, p |-> i3.p, index |-> Idx(0, 3, 1, 2)]
      ELSE [found |-> FALSE, p |-> RVec(Zero3, 1), index |-> Idx(0, 1, 2, 3)]

\* The three pairings of the Quad case, in the order of the code; index as
\* assigned (it is 0,1,2,3 from the classifier when no pairing intersects).
QuadPermutation(data) ==
  LET i1 == SegmentIntersection(data[0], data[1], data[2], data[3])
      i2 == SegmentIntersection(data[0], data[2], data[1], data[3])
      i3 == SegmentIntersection(data[0], data[3], data[1], data[2])
  IN  IF i1.found THEN [found |-> TRUE, p |-> i1.p, index |-> Idx(0, 1, 2, 3)]
      ELSE IF i2.found THEN [found |-> TRUE, p |-> i2.p, index |-> Idx(0, 2, 1, 3)]
      ELSE IF i3.found THEN [found |-> TRUE, p |-> i3.p, index |-> Idx(0, 3, 1, 2)]
      ELSE [found |-> FALSE, p |-> RVec(Zero3, 1), index |-> Idx(0, 1, 2, 3)]

\* r = a / b for two lengths: n / m when the quotient is a rational with
\* n <= m = a.den (every point of a segment), "nan" for b = 0, and kept out
\* of the rationals otherwise.
Ratio(a, b) ==
  IF b.sq = 0 THEN [kind |-> "nan", n |-> 0, d |-> 1]
  ELSE LET S == {n \in 0..a.den : n * n * b.sq = a.sq}
       IN  IF S = {} THEN [kind |-> "surd", n |-> 0, d |-> 1]
           ELSE [kind |-> "rat", n |-> b.den * (CHOOSE n \in S : TRUE), d |-> a.den]

\* q0 + r * (q1 - q0)
Lift(q0, q1, r) == RVec(Add3(Scale3(r.d, q0), Scale3(r.n, Sub3(q1, q0))), r.d)

\* The length of a vector that is NaN, or built from a ratio the model keeps
\* out of the rationals.
Unrepresented == [fin |-> FALSE, sq |-> 1, den |-> 1]

\* (Mutant: the fan follows i0, i1, i2, i3.)
TrianglesQuadInIndexOrder(vertex, index) ==
  << <<-1, vertex[index[0]], vertex[index[1]]>>,
     <<-1, vertex[index[1]], vertex[index[2]]>>,
     <<-1, vertex[index[2]], vertex[index[3]]>>,
     <<-1, vertex[index[3]], vertex[index[0]]>> >>

\* The four triangles of the Quad case, as pushed (-1: the new vertex).
TrianglesQuad(vertex, index) ==
  << <<-1, vertex[index[0]], vertex[index[2]]>>,
     <<-1, vertex[index[2]], vertex[index[1]]>>,
     <<-1, vertex[index[1]], vertex[index[3]]>>,
     <<-1, vertex[index[3]], vertex[index[0]]>> >>

QuadResult(q, r0, r1, massDensity, vertex, volume, isLimit) ==
  [isInTriangle |-> FALSE, index |-> q.index, found |-> q.found,
   isLimit |-> isLimit, A |-> 0, recipOfZero |-> FALSE,
   weights |-> <<r0, r1>>,
   massDensity |-> massDensity,
   density |-> Density(isLimit, massDensity, volume),
   imaginaryPosition |-> q.p,
   pushed |-> TrianglesQuad(vertex, q.index)]

\* massDensity = |p0 - p1|, the two lifted points.
QuadMass(r0, r1, position, index) ==
  IF r0.kind = "nan" \/ r1.kind = "nan" THEN NotFinite
  ELSE IF r0.kind = "surd" \/ r1.kind = "surd" THEN Unrepresented
  ELSE distance(Lift(position[index[0]], position[index[1]], r0),
                Lift(position[index[2]], position[index[3]], r1))

QuadRatios(q, r0, r1, vertex, position, volume, isLimit) ==
  QuadResult(q, r0, r1, QuadMass(r0, r1, position, q.index), vertex, volume, isLimit)

\* r0 = |data[i0] - p| / |data[i0] - data[i1]|, r1 likewise on i2, i3.
QuadAt(q, vertex, data, position, volume, isLimit) ==
  QuadRatios(q,
             Ratio(distance(RVec(data[q.index[0]], 1), q.p),
                   distance(RVec(data[q.index[0]], 1), RVec(data[q.index[1]], 1))),
             Ratio(distance(RVec(data[q.index[2]], 1), q.p),
                   distance(RVec(data[q.index[2]], 1), RVec(data[q.index[3]], 1))),
             vertex, position, volume, isLimit)

\* Lines 361-458.
ProjectQuad(vertex, data, position, volume, isLimit) ==
  QuadAt(QuadPermutation(data), vertex, data, position, volume, isLimit)

(***************************************************************************)
(* State.                                                                  *)
(***************************************************************************)
VARIABLES
  vertexNumber_, withDummyValue_, dummyValue_, resolutions_,
  scalarMin_, scalarMax_, density_, validPointMask_,  \* the object's fields
  threadNumber_,     \* Debug::threadNumber_, the size of the thread team
  scalars1, scalars2, triangulation,  \* the arguments of execute: Null or data
  pc,                \* "idle", "loop", "returned", "crashed"
  ret,               \* the value execute returned
  owner,             \* the schedule of the loop: cell -> thread
  th,                \* thread -> the locals of its current iteration
  triangles,         \* thread -> its private copy of the triangle list
  out,               \* cell -> what its iteration produced
  acc,               \* thread -> the locations it read or wrote in the loop
  calls              \* the calls of setDummyValue so far: arguments and result

config == <<vertexNumber_, withDummyValue_, dummyValue_, resolutions_,
            scalarMin_, scalarMax_, density_, validPointMask_, threadNumber_>>
args == <<scalars1, scalars2, triangulation>>
run == <<pc, ret, owner, th, triangles, out, acc>>
vars == <<config, args, run, calls>>

Threads == 1..MaxThreads
Team == 1..threadNumber_

NoOutput == [status |-> "none"]
IdleThread == [stage |-> "idle"]
NoAccess == {}

\* The cells of the loop: 0 .. numberOfCells - 1.
Cells == IF triangulation.null THEN {} ELSE 0..(triangulation.at.numberOfCells - 1)

(***************************************************************************)
(* execute: the precondition checks (lines 102-121).                       *)
(***************************************************************************)
\* (Mutant: scalars2 is checked before scalars1.)
PreconditionSwapped(s1, s2, tri, density) ==
  IF s2.null THEN -2
  ELSE IF s1.null THEN -1
  ELSE IF tri.null THEN -3
  ELSE IF density.null THEN -4
  ELSE IF tri.at.numberOfCells <= 0 THEN -5
  ELSE IF tri.at.cellVertexNumber[0] # 4 THEN -6
  ELSE 0

Precondition(s1, s2, tri, density) ==
  IF s1.null THEN -1
  ELSE IF s2.null THEN -2
  ELSE IF tri.null THEN -3
  ELSE IF density.null THEN -4
  ELSE IF tri.at.numberOfCells <= 0 THEN -5
  ELSE IF tri.at.cellVertexNumber[0] # 4 THEN -6
  ELSE 0

\* The schedules of n iterations on a team of T threads, up to the names of
\* the threads: a thread runs its iterations in increasing order.
Schedules(n, T) ==
  {f \in [0..(n - 1) -> 1..T] :
     \A c \in 0..(n - 1) : \A t \in 1..T :
        f[c] = t /\ t > 1 => \E b \in 0..(c - 1) : f[b] = t - 1}

\* (Mutant: one list for the whole team.)
TrianglesShared(t) == <<"triangles", 0>>

\* "#pragma omp parallel for firstprivate(triangles)": the list of thread t.
TrianglesOf(t) == <<"triangles", t>>

\* The variables declared in the loop body: each iteration's own.
Locals(t) == <<"locals", t>>

\* scalarMax_[0] - scalarMin_[0] (line 132) reads through both pointers
\* unchecked: through a null one the program may end there, or go on (the
\* values read are used by nothing in the loop).
Line132(min, max) == IF min.null \/ max.null THEN {"loop", "crashed"} ELSE {"loop"}

Execute ==
  /\ pc = "idle"
  /\ LET status == Precondition(scalars1, scalars2, triangulation, density_)
     IN  IF status # 0
         THEN /\ pc' = "returned"
              /\ ret' = status
              /\ UNCHANGED <<owner, th, triangles, out, acc>>
         ELSE /\ pc' \in Line132(scalarMin_, scalarMax_)
              /\ owner' \in Schedules(triangulation.at.numberOfCells, threadNumber_)
              /\ th' = [t \in Threads |-> IdleThread]
              /\ triangles' = [t \in Threads |-> <<>>]
              /\ out' = [c \in Cells |-> NoOutput]
              /\ acc' = [t \in Threads |-> NoAccess]
              /\ UNCHANGED ret
  /\ UNCHANGED <<config, args, calls>>

(***************************************************************************)
(* The loop body, one action per stage; thread t runs its own cells.       *)
(***************************************************************************)
\* The next cell of thread t.
Pending(t) == {c \in Cells : owner[c] = t /\ out[c] = NoOutput}
NextCell(t) == CHOOSE c \in Pending(t) : \A b \in Pending(t) : c <= b

\* What an uninitialised vertex[k] may hold: an id of the mesh, or (-1) an id
\* out of the arrays, whose read ends the program.
Uninitialised(tri, cell) ==
  IF tri.cellVertexNumber[cell] < 4 THEN DOMAIN tri.vertexPoint \cup {-1} ELSE {0}

\* A location shared by the team (thread 0: nobody's own).
Shared(name) == <<name, 0>>

LoaderReads ==
  {Shared(n) : n \in {"triangulation", "scalars1", "scalars2", "withDummyValue_", "dummyValue_"}}

\* (Mutant: the list is cleared before "continue".)
SkipCleared(list) == <<>>

\* if(isDummy) continue; (lines 183-184): the list is as the thread left it.
Skip(list) == list

LoadCell(t) ==
  /\ pc = "loop"
  /\ t \in Team
  /\ th[t].stage = "idle"
  /\ Pending(t) # {}
  /\ LET cell == NextCell(t)
         tri == triangulation.at
     IN  \E u \in Uninitialised(tri, cell) :
           IF u < 0
           THEN /\ pc' = "crashed"
                /\ UNCHANGED <<th, out, acc, triangles>>
           ELSE LET vertex == CellVertices(tri, cell, u)
                    data == CellData(scalars1.at, scalars2.at, vertex)
                    position == CellPositions(tri, vertex)
                IN  /\ acc' = [acc EXCEPT ![t] =
                                 @ \cup {<<l, "r">> : l \in LoaderReads} \cup {<<Locals(t), "w">>}]
                    /\ UNCHANGED pc
                    /\ IF IsDummyCell(data, withDummyValue_, dummyValue_)
                       THEN /\ triangles' = [triangles EXCEPT ![t] = Skip(@)]
                            /\ out' = [out EXCEPT ![cell] =
                                         [status |-> "skipped", pushed |-> <<>>,
                                          triangles |-> Skip(triangles[t])]]
                            /\ UNCHANGED th
                       ELSE /\ th' = [th EXCEPT ![t] =
                                        [stage |-> "loaded", cell |-> cell, vertex |-> vertex,
                                         data |-> data, position |-> position]]
                            /\ UNCHANGED <<out, triangles>>
  /\ UNCHANGED <<config, args, ret, owner, calls>>

SolveGradient(t) ==
  /\ pc = "loop"
  /\ th[t].stage = "loaded"
  /\ LET g == Gradient(th[t].position, th[t].data)
     IN  th' = [th EXCEPT ![t] =
                  [stage |-> "solved", cell |-> @.cell, vertex |-> @.vertex, data |-> @.data,
                   position |-> @.position, det |-> g.det, g0 |-> g.g0, g1 |-> g.g1]]
  /\ UNCHANGED <<config, args, pc, ret, owner, triangles, out, acc, calls>>

ClassifyCell(t) ==
  /\ pc = "loop"
  /\ th[t].stage = "solved"
  /\ LET volume == Volume(th[t].g0, th[t].g1)
         class == Classify(th[t].data)
     IN  th' = [th EXCEPT ![t] =
                  [stage |-> "classified", cell |-> @.cell, vertex |-> @.vertex,
                   data |-> @.data, position |-> @.position,
                   det |-> @.det, g0 |-> @.g0, g1 |-> @.g1,
                   volume |-> volume, isLimit |-> IsZeroLen(volume),
                   isInTriangle |-> class.isInTriangle, index |-> class.index]]
  /\ UNCHANGED <<config, args, pc, ret, owner, triangles, out, acc, calls>>

\* (Mutant: the list is not cleared.)
EmitNoClear(list, pushed) == list \o pushed

\* triangles.clear() (line 284), then the push_backs of the case.
Emit(list, pushed) == pushed

\* The case of the cell (line 287).
Project(l) ==
  IF l.isInTriangle
  THEN ProjectInTriangle(l.vertex, l.data, l.position, l.index, l.volume, l.isLimit)
  ELSE ProjectQuad(l.vertex, l.data, l.position, l.volume, l.isLimit)

Emitted(t, l, r, list) ==
  /\ triangles' = [triangles EXCEPT ![t] = list]
  /\ out' = [out EXCEPT ![l.cell] =
               [status |-> "processed", vertex |-> l.vertex, data |-> l.data,
                position |-> l.position, det |-> l.det, g0 |-> l.g0, g1 |-> l.g1,
                volume |-> l.volume, result |-> r, triangles |-> list]]
  /\ acc' = [acc EXCEPT ![t] = @ \cup {<<TrianglesOf(t), "w">>}]
  /\ th' = [th EXCEPT ![t] = IdleThread]

Projected(t, l, r) == Emitted(t, l, r, Emit(triangles[t], r.pushed))

ProjectCell(t) ==
  /\ pc = "loop"
  /\ th[t].stage = "classified"
  /\ Projected(t, th[t], Project(th[t]))
  /\ UNCHANGED <<config, args, pc, ret, owner, calls>>

\* The end of the loop and "return 0" (line 470).
Return ==
  /\ pc = "loop"
  /\ \A c \in Cells : out[c] # NoOutput
  /\ pc' = "returned"
  /\ ret' = 0
  /\ UNCHANGED <<config, args, owner, th, triangles, out, acc, calls>>

Next ==
  \/ Execute
  \/ \E t \in Threads : LoadCell(t)
  \/ \E t \in Threads : SolveGradient(t)
  \/ \E t \in Threads : ClassifyCell(t)
  \/ \E t \in Threads : ProjectCell(t)
  \/ Return

(***************************************************************************)
(* The inputs.                                                             *)
(***************************************************************************)
NoValue == "unset"

\* The values given to setDummyValue.
DummyValues == {0, 5}

StdPos == << <<0, 0, 0>>, <<1, 0, 0>>, <<0, 1, 0>>, <<0, 0, 1>> >>
FlatPos == << <<0, 0, 0>>, <<1, 0, 0>>, <<0, 1, 0>>, <<1, 1, 0>> >>

\* A few cells: vertex 3 inside the triangle of the others (scalar 0 at vertex
\* 0); a convex quadrilateral (scalar 0 in the second field of vertex 3); a
\* flat tetrahedron; a pyramid (5 vertices); a triangle (3 vertices).
SampleCells ==
  { CellOf(4, <<0, 4, 1, 2>>, <<1, 1, 4, 2>>, StdPos),
    CellOf(4, <<1, 3, 1, 3>>, <<1, 2, 3, 0>>, StdPos),
    CellOf(4, <<1, 2, 1, 2>>, <<1, 1, 2, 2>>, FlatPos),
    CellOf(5, <<1, 2, 1, 2, 3>>, <<1, 1, 2, 2, 3>>, FlatPos \o << <<0, 0, 1>> >>),
    CellOf(3, <<1, 2, 1>>, <<1, 1, 2>>, SubSeq(StdPos, 1, 3)) }

Meshes == UNION {[1..n -> SampleCells] : n \in 0..MaxCells}

\* The object as its setters leave it, the caller's pointers null or not.
Init ==
  /\ vertexNumber_ = 0
  /\ resolutions_ = <<1, 1>>
  /\ scalarMin_ = Ptr("scalarMin")
  /\ scalarMax_ = Ptr("scalarMax")
  /\ validPointMask_ = Null
  /\ withDummyValue_ \in BOOLEAN
  /\ dummyValue_ \in (IF withDummyValue_ THEN DummyValues ELSE {0})
  /\ density_ \in {Null, Ptr("density")}
  /\ threadNumber_ \in Threads
  /\ \E ks \in Meshes :
       /\ triangulation \in
            {Null} \cup {Ptr(TriangulationOf(ks, n)) :
                           n \in (IF ks = <<>> THEN {-1, 0} ELSE {Len(ks)})}
       /\ scalars1 \in {Null, Ptr(Scalars1Of(ks))}
       /\ scalars2 \in {Null, Ptr(Scalars2Of(ks))}
  /\ pc = "idle"
  /\ ret = NoValue
  /\ owner = <<>>
  /\ th = <<>>
  /\ triangles = <<>>
  /\ out = <<>>
  /\ acc = <<>>
  /\ calls = <<>>

Spec == Init /\ [][Next]_vars

(***************************************************************************)
(* One tetrahedron, over every assignment of grid scalars to its vertices  *)
(* and a few shapes, and over every placement of its vertices on a few     *)
(* points with a few scalar patterns.                                      *)
(***************************************************************************)
MaxCoord == 2
Coords == 0..MaxCoord

\* Positive and negative orientation, a skewed one, and a flat one.
Shapes ==
  { StdPos,
    << <<0, 0, 0>>, <<0, 1, 0>>, <<1, 0, 0>>, <<0, 0, 1>> >>,
    << <<1, 0, 0>>, <<0, 2, 1>>, <<1, 1, 0>>, <<0, 1, 2>> >>,
    FlatPos }

PosPoints == { <<0, 0, 0>>, <<1, 0, 0>>, <<0, 1, 0>>, <<0, 0, 1>>, <<1, 1, 2>> }

ScalarPatterns ==
  { << <<0, 2, 1, 1>>, <<0, 0, 2, 1>> >>,
    << <<0, 1, 1, 0>>, <<0, 1, 0, 1>> >>,
    << <<1, 1, 1, 1>>, <<2, 2, 2, 2>> >> }

Tetrahedra ==
  {CellOf(4, s1, s2, pos) : s1 \in [1..4 -> Coords], s2 \in [1..4 -> {0, 1, 2}], pos \in Shapes}
  \cup {CellOf(4, s[1], s[2], pos) : s \in ScalarPatterns, pos \in [1..4 -> PosPoints]}

InitCell ==
  /\ vertexNumber_ = 0
  /\ resolutions_ = <<1, 1>>
  /\ scalarMin_ = Ptr("scalarMin")
  /\ scalarMax_ = Ptr("scalarMax")
  /\ validPointMask_ = Null
  /\ withDummyValue_ = FALSE
  /\ dummyValue_ = 0
  /\ density_ = Ptr("density")
  /\ threadNumber_ = 1
  /\ \E k \in Tetrahedra :
       /\ triangulation = Ptr(TriangulationOf(<<k>>, 1))
       /\ scalars1 = Ptr(Scalars1Of(<<k>>))
       /\ scalars2 = Ptr(Scalars2Of(<<k>>))
  /\ pc = "idle"
  /\ ret = NoValue
  /\ owner = <<>>
  /\ th = <<>>
  /\ triangles = <<>>
  /\ out = <<>>
  /\ acc = <<>>
  /\ calls = <<>>

SpecCell == InitCell /\ [][Next]_vars

(***************************************************************************)
(* The configuration surface (lines 45-83): the setters, called on the     *)
(* constructed object before execute, on one tetrahedron.                  *)
(***************************************************************************)
MaxCalls == 3

\* (Mutant: the flag and the value are assigned whatever withDummyValue is.)
DummyAfterUnconditional(flag, value, withDummyValue, dummyValue) ==
  [withDummyValue_ |-> withDummyValue, dummyValue_ |-> dummyValue]

\* if(withDummyValue) { withDummyValue_ = true; dummyValue_ = dummyValue; }
DummyAfter(flag, value, withDummyValue, dummyValue) ==
  IF withDummyValue
  THEN [withDummyValue_ |-> TRUE, dummyValue_ |-> dummyValue]
  ELSE [withDummyValue_ |-> flag, dummyValue_ |-> value]

setVertexNumber(vertexNumber) ==
  /\ pc = "idle"
  /\ vertexNumber_' = vertexNumber
  /\ UNCHANGED <<withDummyValue_, dummyValue_, resolutions_, scalarMin_, scalarMax_,
                 density_, validPointMask_, threadNumber_, args, run, calls>>

setDummyValue(withDummyValue, dummyValue) ==
  /\ pc = "idle"
  /\ Len(calls) < MaxCalls
  /\ withDummyValue_' =
       DummyAfter(withDummyValue_, dummyValue_, withDummyValue, dummyValue).withDummyValue_
  /\ dummyValue_' =
       DummyAfter(withDummyValue_, dummyValue_, withDummyValue, dummyValue).dummyValue_
  /\ calls' = Append(calls, [withDummyValue |-> withDummyValue,
                             dummyValue |-> dummyValue, ret |-> 0])
  /\ UNCHANGED <<vertexNumber_, resolutions_, scalarMin_, scalarMax_,
                 density_, validPointMask_, threadNumber_, args, run>>

setResolutions(resolutionX, resolutionY) ==
  /\ pc = "idle"
  /\ resolutions_' = <<resolutionX, resolutionY>>
  /\ UNCHANGED <<vertexNumber_, withDummyValue_, dummyValue_, scalarMin_, scalarMax_,
                 density_, validPointMask_, threadNumber_, args, run, calls>>

setScalarMin(scalarMin) ==
  /\ pc = "idle"
  /\ scalarMin_' = scalarMin
  /\ UNCHANGED <<vertexNumber_, withDummyValue_, dummyValue_, resolutions_, scalarMax_,
                 density_, validPointMask_, threadNumber_, args, run, calls>>

setScalarMax(scalarMax) ==
  /\ pc = "idle"
  /\ scalarMax_' = scalarMax
  /\ UNCHANGED <<vertexNumber_, withDummyValue_, dummyValue_, resolutions_, scalarMin_,
                 density_, validPointMask_, threadNumber_, args, run, calls>>

setOutputDensity(density) ==
  /\ pc = "idle"
  /\ density_' = density
  /\ UNCHANGED <<vertexNumber_, withDummyValue_, dummyValue_, resolutions_, scalarMin_,
                 scalarMax_, validPointMask_, threadNumber_, args, run, calls>>

setOutputMask(mask) ==
  /\ pc = "idle"
  /\ validPointMask_' = mask
  /\ UNCHANGED <<vertexNumber_, withDummyValue_, dummyValue_, resolutions_, scalarMin_,
                 scalarMax_, density_, threadNumber_, args, run, calls>>

\* The tetrahedron of the configured runs: scalar 0 at vertex 0.
ConfiguredCell == CellOf(4, <<0, 4, 1, 2>>, <<1, 1, 4, 2>>, StdPos)

\* The object as constructed: every field value-initialised.
InitConfig ==
  /\ vertexNumber_ = 0
  /\ withDummyValue_ = FALSE
  /\ dummyValue_ = 0
  /\ resolutions_ = <<0, 0>>
  /\ scalarMin_ = Null
  /\ scalarMax_ = Null
  /\ density_ = Null
  /\ validPointMask_ = Null
  /\ threadNumber_ = 1
  /\ triangulation = Ptr(TriangulationOf(<<ConfiguredCell>>, 1))
  /\ scalars1 = Ptr(Scalars1Of(<<ConfiguredCell>>))
  /\ scalars2 = Ptr(Scalars2Of(<<ConfiguredCell>>))
  /\ pc = "idle"
  /\ ret = NoValue
  /\ owner = <<>>
  /\ th = <<>>
  /\ triangles = <<>>
  /\ out = <<>>
  /\ acc = <<>>
  /\ calls = <<>>

NextConfig ==
  \/ setVertexNumber(4)
  \/ \E withDummyValue \in BOOLEAN : \E dummyValue \in DummyValues :
        setDummyValue(withDummyValue, dummyValue)
  \/ setResolutions(2, 2)
  \/ setScalarMin(Ptr("scalarMin"))
  \/ setScalarMax(Ptr("scalarMax"))
  \/ setOutputDensity(Ptr("density"))
  \/ setOutputMask(Ptr("mask"))
  \/ Next

SpecConfig == InitConfig /\ [][NextConfig]_vars

(***************************************************************************)
(* Properties.                                                             *)
(***************************************************************************)
Started == pc \in {"loop", "crashed"} \/ (pc = "returned" /\ ret = 0)
Done(c) == out[c] # NoOutput
Processed(c) == out[c].status = "processed"
Skipped(c) == out[c].status = "skipped"
Mesh == triangulation.at
IsTetrahedron(c) == Mesh.cellVertexNumber[c] = 4

\* A vertex of cell c carries the dummy value in either scalar array.
HasDummyVertex(c) ==
  \E k \in DOMAIN Mesh.cellVertex[c] :
     \/ scalars1.at[Mesh.cellVertex[c][k]] = dummyValue_
     \/ scalars2.at[Mesh.cellVertex[c][k]] = dummyValue_

\* C1: in dummy-value mode a tetrahedron with a vertex whose first or second
\* scalar is the dummy value is skipped (no triangle pushed, no density, the
\* thread's list left as it was) and every other tetrahedron is processed.
C1_DummyCellsSkipped ==
  Started /\ withDummyValue_ =>
    \A c \in Cells :
       Done(c) /\ IsTetrahedron(c) =>
         /\ HasDummyVertex(c) <=> Skipped(c)
         /\ ~ HasDummyVertex(c) <=> Processed(c)
         /\ Skipped(c) => out[c].pushed = <<>> /\ DOMAIN out[c] = {"status", "pushed", "triangles"}

\* A run in dummy mode with one cell skipped for its second scalar only and
\* another cell processed.
C1_Witness ==
  /\ Started /\ withDummyValue_
  /\ \E c, b \in Cells :
       /\ Done(c) /\ Done(b) /\ IsTetrahedron(c) /\ IsTetrahedron(b)
       /\ Skipped(c) /\ Processed(b)
       /\ \A k \in 0..3 : scalars1.at[Mesh.cellVertex[c][k]] # dummyValue_

\* C2: execute returns -1 for null scalars1, -2 for null scalars2, -3 for a
\* null triangulation, -4 for an unset density output, -5 for a cell count
\* <= 0, -6 when the first cell has not 4 vertices, the first failure in this
\* order deciding; no cell is processed then; and 0 when none fails.
C2_StatusCodes ==
  pc = "returned" =>
    /\ scalars1.null => ret = -1
    /\ ~ scalars1.null /\ scalars2.null => ret = -2
    /\ ~ scalars1.null /\ ~ scalars2.null /\ triangulation.null => ret = -3
    /\ ~ scalars1.null /\ ~ scalars2.null /\ ~ triangulation.null /\ density_.null => ret = -4
    /\ ~ scalars1.null /\ ~ scalars2.null /\ ~ triangulation.null /\ ~ density_.null =>
         /\ Mesh.numberOfCells <= 0 => ret = -5
         /\ Mesh.numberOfCells > 0 /\ ~ IsTetrahedron(0) => ret = -6
         /\ Mesh.numberOfCells > 0 /\ IsTetrahedron(0) => ret = 0
    /\ ret # 0 => out = <<>> /\ triangles = <<>> /\ th = <<>>

\* execute returned -2 although the triangulation and the density output are
\* missing too.
C2_Witness ==
  /\ pc = "returned" /\ ret = -2
  /\ ~ scalars1.null /\ scalars2.null /\ triangulation.null /\ density_.null

\* C3: a mesh with a cell that is not a tetrahedron, whatever its index, is
\* refused before the loop: the loop only ever runs on cells of 4 vertices.
C3_OnlyTetrahedraProcessed ==
  Started => \A c \in Cells : IsTetrahedron(c)

\* C4: a processed cell is in one of the two cases, and the triangle list
\* built for it has 3 triangles in the InTriangle case and 4 in the Quad case.
C4_TriangleCount ==
  Started =>
    \A c \in Cells :
       Done(c) /\ Processed(c) =>
         /\ out[c].result.isInTriangle \in BOOLEAN
         /\ Len(out[c].triangles) = (IF out[c].result.isInTriangle THEN 3 ELSE 4)
         /\ out[c].triangles = out[c].result.pushed

\* A Quad cell and an InTriangle cell processed one after the other by the
\* same thread.
C4_Witness ==
  /\ Started
  /\ \E c, b \in Cells :
       /\ b < c /\ owner[b] = owner[c]
       /\ Done(c) /\ Done(b) /\ Processed(b) /\ Processed(c)
       /\ out[b].result.isInTriangle /\ ~ out[c].result.isInTriangle
       /\ Len(out[c].triangles) = 4

Result(c) == out[c].result
Finished(c) == Done(c) /\ Processed(c)

\* The cell is a limit case: volume == 0, or A == 0 in the InTriangle case.
LimitCase(c) == IsZeroLen(out[c].volume) \/ (Result(c).isInTriangle /\ Result(c).A = 0)

Others(v) == IF v = 0 THEN <<1, 2, 3>> ELSE IF v = 1 THEN <<0, 2, 3>>
             ELSE IF v = 2 THEN <<0, 1, 3>> ELSE <<0, 1, 2>>
Contained(data) ==
  {v \in 0..3 : isPointInTriangle(data[Others(v)[1]], data[Others(v)[2]],
                                  data[Others(v)[3]], data[v])}
Lowest(S) == CHOOSE v \in S : \A w \in S : v <= w
Highest(S) == CHOOSE v \in S : \A w \in S : v >= w

\* C6 as stated: the tests run from vertex 0 to vertex 3, so the apex i3 is
\* the lowest-numbered vertex contained in the triangle of the other three.
C6_LowestApexWins ==
  Started =>
    \A c \in Cells :
       Finished(c) =>
         /\ Result(c).isInTriangle <=> Contained(out[c].data) # {}
         /\ Result(c).isInTriangle =>
              /\ Result(c).index[3] = Lowest(Contained(out[c].data))
              /\ <<Result(c).index[0], Result(c).index[1], Result(c).index[2]>>
                   = Others(Result(c).index[3])

\* C6, amended: the tests run vertex 3 in (0,1,2), then 2 in (0,1,3), then 1
\* in (0,2,3), then 0 in (1,2,3), first match wins: the apex i3 is the
\* highest-numbered vertex contained in the triangle of the other three, and
\* i0, i1, i2 are the other three.
C6_HighestApexWins ==
  Started =>
    \A c \in Cells :
       Finished(c) =>
         /\ Result(c).isInTriangle <=> Contained(out[c].data) # {}
         /\ Result(c).isInTriangle =>
              /\ Result(c).index[3] = Highest(Contained(out[c].data))
              /\ <<Result(c).index[0], Result(c).index[1], Result(c).index[2]>>
                   = Others(Result(c).index[3])

\* A cell with two contained vertices of different scalar pairs; the apex is
\* the higher one.
C6_Witness ==
  /\ Started
  /\ \E c \in Cells :
       /\ Finished(c) /\ Result(c).isInTriangle
       /\ \E v, w \in Contained(out[c].data) :
            v < w /\ out[c].data[v] # out[c].data[w] /\ Result(c).index[3] = w

\* The rational point p lies on the segment from a to b.
OnSegment(p, a, b) ==
  /\ (b[1] - a[1]) * (p.num[2] - a[2] * p.den) = (b[2] - a[2]) * (p.num[1] - a[1] * p.den)
  /\ RatGE(p.num[1], p.den, Min2(a[1], b[1])) /\ RatLE(p.num[1], p.den, Max2(a[1], b[1]))
  /\ RatGE(p.num[2], p.den, Min2(a[2], b[2])) /\ RatLE(p.num[2], p.den, Max2(a[2], b[2]))

Crosses(data, i0, i1, i2, i3) == SegmentIntersection(data[i0], data[i1], data[i2], data[i3]).found

\* C7: in the Quad case the pairings 0-1/2-3, 0-2/1-3, 0-3/1-2 are tried in
\* this order, the permutation is that of the first one that intersects, and
\* segment i0-i1 meets segment i2-i3 at p, the synthetic vertex of the fan.
C7_QuadPermutation ==
  Started =>
    \A c \in Cells :
       Finished(c) /\ ~ Result(c).isInTriangle =>
         LET d == out[c].data
             i == Result(c).index
             p == Result(c).imaginaryPosition
         IN  /\ Result(c).found
             /\ i = (IF Crosses(d, 0, 1, 2, 3) THEN Idx(0, 1, 2, 3)
                     ELSE IF Crosses(d, 0, 2, 1, 3) THEN Idx(0, 2, 1, 3)
                     ELSE Idx(0, 3, 1, 2))
             /\ Crosses(d, i[0], i[1], i[2], i[3])
             /\ OnSegment(p, d[i[0]], d[i[1]])
             /\ OnSegment(p, d[i[2]], d[i[3]])
             /\ Result(c).pushed = TrianglesQuad(out[c].vertex, i)

\* A Quad cell where only the third pairing intersects.
C7_Witness ==
  /\ Started
  /\ \E c \in Cells :
       /\ Finished(c) /\ ~ Result(c).isInTriangle /\ Result(c).found
       /\ Result(c).index = Idx(0, 3, 1, 2)
       /\ Result(c).imaginaryPosition.den # 1

\* The edge vectors and scalar differences of a cell.
Edge(c, k) == Sub3(out[c].position[k], out[c].position[0])
Diff(c, k) == Sub3(out[c].data[k], out[c].data[0])

\* C8: when det # 0 the gradients solve the system: for each channel and
\* each edge from vertex 0, g . v1k = s1k (with g = numerator / det:
\* numerator . v1k = det * s1k).
C8_GradientSolves ==
  Started =>
    \A c \in Cells :
       Finished(c) /\ out[c].det # 0 =>
         \A k \in 1..3 :
            /\ out[c].g0.den = out[c].det /\ out[c].g1.den = out[c].det
            /\ dotProduct(out[c].g0.num, Edge(c, k)) = out[c].det * Diff(c, k)[1]
            /\ dotProduct(out[c].g1.num, Edge(c, k)) = out[c].det * Diff(c, k)[2]

\* A tetrahedron of negative det, no two edges with the same scalar
\* differences, and neither gradient zero.
C8_Witness ==
  /\ Started
  /\ \E c \in Cells :
       /\ Finished(c) /\ out[c].det < -1
       /\ Diff(c, 1) # Diff(c, 2) /\ Diff(c, 1) # Diff(c, 3) /\ Diff(c, 2) # Diff(c, 3)
       /\ out[c].g0.num # Zero3 /\ out[c].g1.num # Zero3

\* C9: a flat tetrahedron (det == 0) has both gradients exactly zero,
\* volume == 0 and isLimit; it is classified and gets its 3 or 4 triangles,
\* and the loop goes on: execute returns 0 with every cell done.
C9_FlatTetrahedron ==
  /\ Started =>
       \A c \in Cells :
          Finished(c) /\ out[c].det = 0 =>
            /\ out[c].g0 = RVec(Zero3, 1) /\ out[c].g1 = RVec(Zero3, 1)
            /\ IsZeroLen(out[c].volume)
            /\ Result(c).isLimit
            /\ Len(out[c].triangles) = (IF Result(c).isInTriangle THEN 3 ELSE 4)
  /\ pc = "returned" /\ ret = 0 => \A c \in Cells : Done(c)

\* A flat tetrahedron with different scalars was processed, and so was a
\* later cell of the same thread; execute returned 0.
C9_Witness ==
  /\ pc = "returned" /\ ret = 0
  /\ \E b, c \in Cells :
       /\ b < c /\ owner[b] = owner[c]
       /\ Finished(b) /\ out[b].det = 0 /\ Diff(b, 1) # Zero3 /\ Result(b).isLimit
       /\ Finished(c) /\ out[c].det # 0

\* C10: no thread of the team writes a location that another thread reads or
\* writes, and the locations shared by the team are only read.
C10_NoDataRace ==
  Started =>
    \A t \in Threads : \A a \in acc[t] :
       /\ a[1][2] = 0 => a[2] = "r"
       /\ \A u \in Threads \ {t} : \A b \in acc[u] :
            a[1] = b[1] => a[2] = "r" /\ b[2] = "r"

\* A thread has written its list while another, which has read the same
\* arrays, is in the middle of its iteration and about to write its own.
C10_Witness ==
  /\ pc = "loop"
  /\ \E t, u \in Threads :
       /\ t # u
       /\ <<TrianglesOf(t), "w">> \in acc[t]
       /\ th[u].stage = "classified"
       /\ <<Shared("scalars1"), "r">> \in acc[t] \cap acc[u]

\* One iteration of the loop body as a function of the cell's vertex ids, its
\* scalars and positions: the record of a processed cell from the result r of
\* its case.
OutputOfResult(vertex, data, position, g, volume, r) ==
  [status |-> "processed", vertex |-> vertex, data |-> data, position |-> position,
   det |-> g.det, g0 |-> g.g0, g1 |-> g.g1, volume |-> volume, result |-> r,
   triangles |-> r.pushed]

OutputOfClass(vertex, data, position, g, volume, class) ==
  OutputOfResult(vertex, data, position, g, volume,
                 Project([vertex |-> vertex, data |-> data, position |-> position,
                          volume |-> volume, isLimit |-> IsZeroLen(volume),
                          isInTriangle |-> class.isInTriangle, index |-> class.index]))

OutputOfGradient(vertex, data, position, g) ==
  OutputOfClass(vertex, data, position, g, Volume(g.g0, g.g1), Classify(data))

OutputOfVertices(tri, s1, s2, vertex) ==
  OutputOfGradient(vertex, CellData(s1, s2, vertex), CellPositions(tri, vertex),
                   Gradient(CellPositions(tri, vertex), CellData(s1, s2, vertex)))

\* The output of cell c from its own vertices; u is what the memory of
\* vertex[k] holds for a k the cell has no vertex for.
CellOutput(c, u) ==
  OutputOfVertices(Mesh, scalars1.at, scalars2.at, CellVertices(Mesh, c, u))

\* C11: the output of every cell the loop has run (case, permutation,
\* density, triangle list, synthetic point) is the value of one function of
\* the cell's own vertices and the configuration: the same for every team
\* size, every schedule and interleaving, whatever cells came before it, and
\* whatever the memory outside the cell's own vertices holds.
C11_OutputIsFunctionOfCell ==
  Started =>
    \A c \in Cells :
       Done(c) =>
         \A u \in DOMAIN Mesh.vertexPoint :
            IF IsDummyCell(CellData(scalars1.at, scalars2.at, CellVertices(Mesh, c, u)),
                           withDummyValue_, dummyValue_)
            THEN Skipped(c) /\ out[c].pushed = <<>>
            ELSE out[c] = CellOutput(c, u)

\* The mesh vertex id of local index k of cell c, as loaded.
Id(c, k) == out[c].vertex[Result(c).index[k]]

\* C12: the triangle list of a processed cell is, in this order,
\* (i3,i0,i1), (i3,i0,i2), (i3,i1,i2) in the InTriangle case and
\* (S,i0,i2), (S,i2,i1), (S,i1,i3), (S,i3,i0) in the Quad case, as mesh vertex
\* ids of the permuted local indices; S = -1 is the first slot of all four
\* Quad triangles and occurs nowhere else, and in no InTriangle triangle.
C12_TriangleLists ==
  Started =>
    \A c \in Cells :
       Finished(c) =>
         /\ {Result(c).index[k] : k \in 0..3} = 0..3
         /\ \A k \in 0..3 : k < Mesh.cellVertexNumber[c] => out[c].vertex[k] = Mesh.cellVertex[c][k]
         /\ IF Result(c).isInTriangle
            THEN /\ out[c].triangles = << <<Id(c, 3), Id(c, 0), Id(c, 1)>>,
                                          <<Id(c, 3), Id(c, 0), Id(c, 2)>>,
                                          <<Id(c, 3), Id(c, 1), Id(c, 2)>> >>
                 /\ \A n \in 1..3 : \A s \in 1..3 : out[c].triangles[n][s] # -1
            ELSE /\ out[c].triangles = << <<-1, Id(c, 0), Id(c, 2)>>,
                                          <<-1, Id(c, 2), Id(c, 1)>>,
                                          <<-1, Id(c, 1), Id(c, 3)>>,
                                          <<-1, Id(c, 3), Id(c, 0)>> >>
                 /\ \A n \in 1..4 : \A s \in 2..3 : out[c].triangles[n][s] # -1

\* A Quad cell of permutation (0,2,1,3): its list is (S,0,1), (S,1,2),
\* (S,2,3), (S,3,0) in mesh vertex ids.
C12_Witness ==
  /\ Started
  /\ \E c \in Cells :
       /\ Finished(c) /\ ~ Result(c).isInTriangle
       /\ Result(c).index = Idx(0, 2, 1, 3)
       /\ out[c].triangles = << <<-1, 0, 1>>, <<-1, 1, 2>>, <<-1, 2, 3>>, <<-1, 3, 0>> >>

\* The four vertices of cell c carry the same pair of scalars.
AllEqual(c) == \A k \in 1..3 : out[c].data[k] = out[c].data[0]

\* A density that is a number: the sentinel, or a quotient of a finite
\* numerator by a finite non-zero denominator (not 0/0, not x/0).
IsNumber(d) ==
  d = DensityMax \/ (d.kind = "quot" /\ d.num.fin /\ d.den.fin /\ d.den.sq # 0)

\* C13: a cell whose 4 vertices have identical (value1, value2) takes the
\* InTriangle path with base area A = 0, isLimit is true, and its density is
\* the sentinel or 0: never the result of a division by zero.
C13_IdenticalScalars ==
  Started =>
    \A c \in Cells :
       Finished(c) /\ AllEqual(c) =>
         /\ Result(c).isInTriangle
         /\ Result(c).A = 0
         /\ Result(c).isLimit
         /\ IsNumber(Result(c).density)
         /\ Result(c).density = DensityMax \/ IsZeroLen(Result(c).density.num)

\* A tetrahedron that is not flat, with identical scalars at its vertices,
\* whose massDensity is not zero: its density is the sentinel.
C13_Witness ==
  /\ Started
  /\ \E c \in Cells :
       /\ Finished(c) /\ AllEqual(c) /\ out[c].det # 0
       /\ ~ IsZeroLen(Result(c).massDensity)
       /\ Result(c).density = DensityMax

\* The four scalar pairs are in general position: no two equal, no three on
\* a line.
GeneralPosition(data) ==
  /\ \A v, w \in 0..3 : v # w => data[v] # data[w]
  /\ \A v \in 0..3 :
       Orient(data[Others(v)[1]], data[Others(v)[2]], data[Others(v)[3]]) # 0

\* The segment pairings, as the permutations the code assigns, that intersect.
Pairings == {Idx(0, 1, 2, 3), Idx(0, 2, 1, 3), Idx(0, 3, 1, 2)}
Crossing(data) == {i \in Pairings : Crosses(data, i[0], i[1], i[2], i[3])}

\* C14: for four scalar pairs in general position exactly one test succeeds:
\* exactly one vertex lies in the triangle of the other three and no pairing
\* of segments intersects, or no vertex does and exactly one pairing
\* intersects; the case and the permutation of the cell are those of that
\* test, whatever the order of the tests.
C14_ExactlyOneTest ==
  Started =>
    \A c \in Cells :
       Finished(c) /\ GeneralPosition(out[c].data) =>
         LET inside == Contained(out[c].data)
             x == Crossing(out[c].data)
         IN  /\ Cardinality(inside) + Cardinality(x) = 1
             /\ Result(c).isInTriangle <=> inside # {}
             /\ Result(c).isInTriangle =>
                  /\ inside = {Result(c).index[3]}
                  /\ <<Result(c).index[0], Result(c).index[1], Result(c).index[2]>>
                       = Others(Result(c).index[3])
             /\ ~ Result(c).isInTriangle => Result(c).found /\ x = {Result(c).index}

\* A cell in general position accepted by the third containment test only
\* (vertex 1 in the triangle of 0, 2, 3), on a tetrahedron that is not flat.
C14_Witness ==
  /\ Started
  /\ \E c \in Cells :
       /\ Finished(c) /\ GeneralPosition(out[c].data) /\ out[c].det # 0
       /\ Result(c).isInTriangle /\ Result(c).index = Idx(0, 2, 3, 1)

\* Twice the area of the triangle of the scalar pairs of local indices
\* j0, j1, j2 of cell c.
AreaOf(c, j0, j1, j2) ==
  computeTriangleArea(out[c].data[Result(c).index[j0]], out[c].data[Result(c).index[j1]],
                      out[c].data[Result(c).index[j2]])

\* The weights n / d and m / e are the same number (d, e # 0).
SameWeight(w, v) == w.n * v.d = v.n * w.d

\* C15: in the InTriangle case, A == 0 makes the cell a limit case with
\* weights alpha = beta = gamma = 0, and the reciprocal 1 / A is never
\* evaluated with A == 0; for A # 0 the weights are area(i1,i2,i3) / A,
\* area(i0,i2,i3) / A and area(i0,i1,i3) / A.
C15_NoDivisionByZero ==
  Started =>
    \A c \in Cells :
       Finished(c) /\ Result(c).isInTriangle =>
         /\ Result(c).A = AreaOf(c, 0, 1, 2)
         /\ Result(c).A = 0 =>
              /\ Result(c).isLimit
              /\ \A n \in 1..3 : Result(c).weights[n].n = 0 /\ Result(c).weights[n].d # 0
              /\ ~ Result(c).recipOfZero
         /\ Result(c).A # 0 =>
              /\ SameWeight(Result(c).weights[1], Rat(AreaOf(c, 1, 2, 3), Result(c).A))
              /\ SameWeight(Result(c).weights[2], Rat(AreaOf(c, 0, 2, 3), Result(c).A))
              /\ SameWeight(Result(c).weights[3], Rat(AreaOf(c, 0, 1, 3), Result(c).A))

\* The cells before c that the thread of c processed, and the last of them.
Earlier(c) == {b \in Cells : b < c /\ owner[b] = owner[c] /\ Processed(b)}
LastProcessed(c) == CHOOSE b \in Earlier(c) : \A a \in Earlier(c) : a <= b

\* C16 as stated: at the end of an iteration the thread's list holds the 3 or
\* 4 triangles of the cell when it was processed and no triangle when it was
\* skipped.
C16_ListOfCurrentCell ==
  Started =>
    \A c \in Cells :
       Done(c) =>
         /\ Processed(c) => /\ out[c].triangles = Result(c).pushed
                            /\ Len(out[c].triangles) \in {3, 4}
         /\ Skipped(c) => out[c].triangles = <<>>

\* C16, amended: at the end of an iteration the thread's list holds exactly
\* the 3 or 4 triangles of the cell when it was processed; when the cell was
\* skipped the list is left as it was: the triangles of the last cell the
\* same thread processed before, or none when there is no such cell. It never
\* holds triangles of more than one cell.
C16_ListOfLastProcessedCell ==
  Started =>
    \A c \in Cells :
       Done(c) =>
         /\ Processed(c) => /\ out[c].triangles = Result(c).pushed
                            /\ Len(out[c].triangles) \in {3, 4}
         /\ Skipped(c) =>
              out[c].triangles = (IF Earlier(c) = {} THEN <<>>
                                  ELSE Result(LastProcessed(c)).pushed)

\* A cell skipped by the thread that processed the cell before it: the list
\* still holds that cell's triangles.
C16_Witness ==
  /\ Started
  /\ \E b, c \in Cells :
       /\ b < c /\ owner[b] = owner[c]
       /\ Finished(b) /\ Done(c) /\ Skipped(c)
       /\ out[c].triangles = out[b].triangles /\ Len(out[c].triangles) \in {3, 4}

\* The calls of setDummyValue with withDummyValue = true, by their position.
Enabling(s) == {n \in 1..Len(s) : s[n].withDummyValue}
Latest(S) == CHOOSE n \in S : \A m \in S : m <= n

\* C17: setDummyValue(false, v) changes neither withDummyValue_ nor
\* dummyValue_ and setDummyValue(true, v) sets them to true and v; so dummy
\* mode, once enabled, is never disabled, dummyValue_ is the v of the latest
\* call with withDummyValue = true, no step other than a call of
\* setDummyValue changes either field, and setDummyValue returns 0.
C17_DummyValueLatch ==
  /\ [](Enabling(calls) # {} =>
          /\ withDummyValue_
          /\ dummyValue_ = calls[Latest(Enabling(calls))].dummyValue)
  /\ [](\A n \in 1..Len(calls) : calls[n].ret = 0)
  /\ [][/\ withDummyValue_ => withDummyValue_'
        /\ calls' = calls => UNCHANGED <<withDummyValue_, dummyValue_>>
        /\ calls' # calls =>
             /\ Len(calls') = Len(calls) + 1
             /\ IF calls'[Len(calls')].withDummyValue
                THEN withDummyValue_' /\ dummyValue_' = calls'[Len(calls')].dummyValue
                ELSE UNCHANGED <<withDummyValue_, dummyValue_>>]_vars

\* setDummyValue(true, 5), then setDummyValue(false, 0), then the other
\* setters and a run: the cell with scalar 0 was processed under dummy value 5.
C17_Witness ==
  /\ Len(calls) = 2
  /\ calls[1].withDummyValue /\ calls[1].dummyValue = 5
  /\ ~ calls[2].withDummyValue /\ calls[2].dummyValue = 0
  /\ withDummyValue_ /\ dummyValue_ = 5
  /\ vertexNumber_ = 4 /\ resolutions_ = <<2, 2>> /\ ~ validPointMask_.null
  /\ pc = "returned" /\ ret = 0 /\ Finished(0)

====
